---- MODULE Spec2Model ----
(***************************************************************************)
(* Rinder: the matching, messaging and moderation calls of                 *)
(* src/services/dataService.ts.                                            *)
(*                                                                         *)
(* The store (Supabase tables users, swipes, matches, messages) is shared  *)
(* by every browser; each browser holds its own DataService instance with  *)
(* its own cached currentUser.  Every `await supabase...` is one atomic    *)
(* store step; the code between two awaits runs with the step before it.   *)
(* sendMessage reads the caller's clock when it is called and its row is   *)
(* persisted in a later step, so the two are separate actions.             *)
(***************************************************************************)
EXTENDS Integers, Sequences, FiniteSets, Bags, TLC

(* ----------------------------- bounds ---------------------------------- *)
\* rows that may ever be inserted into swipes
MaxSwipes == 3
\* match rows that may ever be inserted
MaxMatches == 2
\* moderation calls (toggleBlock, deleteUser) that may ever be made
MaxAdminCalls == 1
\* rows that may ever be inserted into messages
MaxMessages == 2
\* the largest value a client's clock gives
MaxTime == 2
\* the setTimeout callbacks of one SwipeDeck pending at a time
MaxTimers == 2

(* --------------------------- program data ------------------------------ *)
\* enum UserType
COMPANY == "COMPANY"
RESEARCHER == "RESEARCHER"
ADMIN == "ADMIN"
UserType == {COMPANY, RESEARCHER, ADMIN}

\* the browsers, each with one DataService instance
Clients == {"c1", "c2"}
\* the moderation console (AdminDashboard), which calls toggleBlock/deleteUser
Consoles == {"m1"}
\* every moderation console: the one above and a second one open beside it
Moderators == {"m1", "m2"}
Procs == Clients \cup Moderators

\* ids (and usernames) of the seeded profiles
Ids == {"org1", "org2", "ind1", "ind2", "adm"}
Topics == {"AI"}

\* absent optional arguments / null results
NoFilter == ""
NoPref == ""
NoId == ""
NoUser == [id |-> NoId, type |-> ""]
NoMatch == [id |-> 0, users |-> <<NoId, NoId>>]

VARIABLES
  users,        \* table users: id -> [username, type, isBlocked, focusAreas]
  swipes,       \* table swipes: a bag of rows [actorId, targetId, action]
  matches,      \* table matches: a set of rows [id, users]
  nextMatchId,  \* the id the store gives the next match row
  messages,     \* table messages: a sequence of rows
  currentUser,  \* per client: DataService.currentUser
  pc,           \* per process: the await it is suspended at
  local,        \* per process: the locals of the running call
  ret,          \* the return made by the last step, if it made one
  adminCalls,   \* number of moderation calls made so far
  swipeCalls,   \* number of rows ever inserted into swipes
  swipedEver,   \* history: <<a, b, action>> for every row ever inserted into swipes
  clock,        \* per client: the last value its Date.now() gave
  nextMsgId,    \* the id the store gives the next messages row
  deleted,      \* history: the ids whose deleteUser call has returned
  ui            \* per client: the state of the React components of its browser

vars == <<users, swipes, matches, nextMatchId, messages, currentUser, pc,
          local, ret, adminCalls, swipeCalls, swipedEver, clock, nextMsgId, deleted, ui>>

(* ------------------------------ helpers -------------------------------- *)
\* the arguments of a call
NoArg == [targetId |-> NoId, action |-> "", filter |-> NoFilter, pref |-> NoPref,
          content |-> "", stamp |-> 0, pwOk |-> FALSE, type |-> ""]

\* the locals of a process that runs no call; before is what the history
\* held when the call started, gone the ids whose deletion had returned by then
NoLocal == [arg |-> NoArg, swipedIds |-> {}, rows |-> <<>>, results |-> <<>>,
            isBlocked |-> FALSE, before |-> {}, gone |-> {}]

\* a return: op names the call, err is TRUE when it threw, error is the
\* message thrown, fault is TRUE when a request of the call to the store failed
Ret(op, arg, err, match, list, before) ==
  [op |-> op, arg |-> arg, err |-> err, match |-> match, list |-> list, before |-> before,
   error |-> "", fault |-> FALSE]

\* the messages of the errors the service makes itself, and the one of the store
AccountBlocked == "Account blocked by administrator."
UsernameTaken == "Username is already taken"
StoreError == "store error"

\* the call throws an error with this message
Thrown(op, arg, message) ==
  [Ret(op, arg, TRUE, NoMatch, <<>>, {}) EXCEPT !.error = message]

\* the return r of a call one of whose requests failed
Faulted(r) == [r EXCEPT !.fault = TRUE]

\* the return event of process p, called as user id
RetOf(p, id, r, gone) ==
  [proc |-> p, user |-> id, op |-> r.op, arg |-> r.arg, err |-> r.err,
   match |-> r.match, list |-> r.list, before |-> r.before, gone |-> gone,
   error |-> r.error, fault |-> r.fault]

NoRet == RetOf("", NoId, Ret("", NoArg, FALSE, NoMatch, <<>>, {}), {})

\* a users row as the client sees it (select '*')
UserRow(id) == [id |-> id, username |-> users[id].username, type |-> users[id].type,
                isBlocked |-> users[id].isBlocked,
                focusAreas |-> users[id].focusAreas]

\* number of rows of a table (a bag) among the row values in rows
RECURSIVE CountRows(_, _)
CountRows(rows, bag) ==
  IF rows = {} THEN 0
  ELSE LET r == CHOOSE x \in rows : TRUE
       IN bag[r] + CountRows(rows \ {r}, bag)

\* mutant: a sort that may repeat one element in place of another
OrdersWithRepeats(S) == [1..Cardinality(S) -> S]

\* all orders of a finite set (the outcomes of the random sort)
Orders(S) ==
  {s \in [1..Cardinality(S) -> S] : \A i, j \in 1..Cardinality(S) : i # j => s[i] # s[j]}

\* a set of match rows as a sequence, in id order
RECURSIVE ById(_)
ById(S) ==
  IF S = {} THEN <<>>
  ELSE LET m == CHOOSE x \in S : \A y \in S : x.id <= y.id
       IN <<m>> \o ById(S \ {m})

\* the match rows of the unordered pair {a, b}
PairMatches(a, b) == {m \in matches : {m.users[1], m.users[2]} = {a, b}}

(* ------------------------- the React components ------------------------ *)
\* the views of App
LOGIN == "LOGIN"
REGISTER == "REGISTER"
SWIPE == "SWIPE"
CHAT == "CHAT"
ADMINVIEW == "ADMIN"

\* the value of a call of an async method that is not awaited
PromiseObject == "[object Promise]"

\* a call a handler has made and the service has not yet begun to serve
NoCall == [username |-> NoId, pwOk |-> FALSE, type |-> ""]

\* the state of the components after mounting.
\* App: view, appUser (its currentUser state), loginError, and the login and
\* register calls made and not begun.
\* SwipeDeck: loading, fetch (a fetchCandidates is running), candidates,
\* index (currentIndex, from 1), timers (the setTimeout callbacks pending, as
\* the target and action each has captured), calls (history: the targets of
\* the swipe calls handleSwipe has made).
\* ChatInterface: mounting (the getMatches of the mount effect has not
\* resolved), partners (the other users of the matches listed), selected
\* (selectedMatchId), asked (the partners of the getConversation calls not yet
\* resolved), shown (messages, with the partner whose conversation it is).
NoUi == [view |-> LOGIN, appUser |-> NoId, loginError |-> "",
         login |-> NoCall, register |-> NoCall,
         loading |-> FALSE, fetch |-> FALSE, candidates |-> <<>>, index |-> 1,
         timers |-> <<>>, calls |-> <<>>,
         mounting |-> FALSE, partners |-> {},
         selected |-> NoId, asked |-> {}, shown |-> [partner |-> NoId, list |-> <<>>]]

\* the call op of client c starts at this step: it suspends at pc value at,
\* or returns at once
Started(c, op, at) ==
  pc[c] = "idle" /\ (pc'[c] = at \/ (ret'.proc = c /\ ret'.op = op))

\* the state of the components of client c after a step of the service: the
\* code that follows an await runs when the call returns, the code of a
\* handler up to its call of the service runs when the call starts
Reaction(c) ==
  LET u == ui[c]
      returned == ret'.proc = c
  IN
  CASE returned /\ ret'.op = "getPotentials" /\ u.fetch ->
         \* fetchCandidates: setCandidates(data), setCurrentIndex(0); finally setLoading(false)
         IF ret'.err THEN [u EXCEPT !.fetch = FALSE, !.loading = FALSE]
         ELSE [u EXCEPT !.fetch = FALSE, !.loading = FALSE, !.index = 1,
                        !.candidates = [i \in 1..Len(ret'.list) |-> ret'.list[i].id]]
    [] Started(c, "swipe", "sw_query") /\ u.timers # <<>> ->
         \* the setTimeout callback: setCurrentIndex(prev => prev + 1), then swipe
         [u EXCEPT !.timers = Tail(@), !.index = @ + 1,
                   !.calls = Append(@, Head(u.timers).targetId)]
    [] returned /\ ret'.op = "logout" /\ u.view # LOGIN ->
         \* handleLogout: setCurrentUser(null), setView(View.LOGIN)
         [u EXCEPT !.view = LOGIN, !.appUser = NoId]
    [] returned /\ ret'.op = "login" /\ u.login # NoCall ->
         \* handleLogin does not await the call: nothing reads its result
         [u EXCEPT !.login = NoCall]
    [] Started(c, "register", "rg_insert") /\ u.register # NoCall ->
         \* handleSubmit does not await the call either
         [u EXCEPT !.register = NoCall]
    [] returned /\ ret'.op = "getMatches" /\ u.mounting ->
         \* getMatches().then(setMatches)
         IF ret'.err THEN [u EXCEPT !.mounting = FALSE]
         ELSE [u EXCEPT !.mounting = FALSE,
                        !.partners = {ret'.list[i].otherUser.id : i \in 1..Len(ret'.list)}]
    [] returned /\ ret'.op = "getConversation" /\ ret'.arg.targetId \in u.asked ->
         \* .then(setMessages)
         [u EXCEPT !.asked = @ \ {ret'.arg.targetId},
                   !.shown = [partner |-> ret'.arg.targetId, list |-> ret'.list]]
    [] returned /\ ret'.op = "sendMessage" /\ ~ret'.err /\ u.selected # NoId ->
         \* handleSend: after the await, getConversation(selectedMatchId) with the
         \* id the handler has captured
         [u EXCEPT !.asked = @ \cup {ret'.arg.targetId}]
    [] OTHER -> u

UiReacts == ui' = [c \in Clients |-> Reaction(c)]

\* a step of a component alone: the service and the store stay as they are
UiOnly ==
  /\ ret' = NoRet
  /\ UNCHANGED <<users, swipes, matches, nextMatchId, messages, currentUser, pc, local,
                 adminCalls, swipeCalls, swipedEver, clock, nextMsgId, deleted>>

\* process p returns r
Finish(p, r) ==
  /\ pc' = [pc EXCEPT ![p] = "idle"]
  /\ local' = [local EXCEPT ![p] = NoLocal]
  /\ ret' = RetOf(p, IF p \in Clients THEN currentUser[p].id ELSE NoId, r,
                  IF pc[p] = "idle" THEN deleted ELSE local[p].gone)

(* ------------------------------- Init ---------------------------------- *)
Init ==
  /\ users = [u \in Ids |->
       CASE u = "org1" -> [username |-> u, type |-> COMPANY, isBlocked |-> FALSE, focusAreas |-> {"AI"}]
         [] u = "org2" -> [username |-> u, type |-> COMPANY, isBlocked |-> FALSE, focusAreas |-> {}]
         [] u = "ind1" -> [username |-> u, type |-> RESEARCHER, isBlocked |-> FALSE, focusAreas |-> {"AI"}]
         [] u = "ind2" -> [username |-> u, type |-> RESEARCHER, isBlocked |-> FALSE, focusAreas |-> {}]
         [] OTHER -> [username |-> u, type |-> ADMIN, isBlocked |-> FALSE, focusAreas |-> {}]]
  /\ swipes = EmptyBag
  /\ matches = {}
  /\ nextMatchId = 1
  /\ messages = <<>>
  /\ currentUser = [c \in Clients |-> NoUser]
  /\ pc = [p \in Procs |-> "idle"]
  /\ local = [p \in Procs |-> NoLocal]
  /\ ret = NoRet
  /\ adminCalls = 0
  /\ swipeCalls = 0
  /\ swipedEver = {}
  /\ clock = [c \in Clients |-> 0]
  /\ nextMsgId = 1
  /\ deleted = {}
  /\ ui = [c \in Clients |-> NoUi]

(* ------------------------------- Auth ---------------------------------- *)
\* .eq('username', username): the ids of the rows with this username
Named(username) == {u \in DOMAIN users : users[u].username = username}

\* .single(): the row when the query gave exactly one, no row otherwise
SingleRow(ids) == IF Cardinality(ids) = 1 THEN CHOOSE u \in ids : TRUE ELSE NoId

\* mutant: the password is compared before the blocked flag is looked at
LoginOutcomePasswordFirst(username, pwOk) ==
  LET u == SingleRow(Named(username)) IN
  IF u = NoId THEN "null"
  ELSE IF ~pwOk THEN "null"
  ELSE IF users[u].isBlocked THEN "blocked"
  ELSE "ok"

\* mutant: the blocked flag is not looked at
LoginOutcomeIgnoreBlock(username, pwOk) ==
  LET u == SingleRow(Named(username)) IN
  IF u = NoId THEN "null"
  ELSE IF ~pwOk THEN "null"
  ELSE "ok"

\* login(username, password): one read of users; pwOk says whether the
\* password given equals the stored one
LoginOutcome(username, pwOk) ==
  LET u == SingleRow(Named(username)) IN
  IF u = NoId THEN "null"
  ELSE IF users[u].isBlocked THEN "blocked"
  ELSE IF ~pwOk THEN "null"
  ELSE "ok"

\* currentUser keeps the id and type of the row: the fields the service reads
Login(c, username, pwOk) ==
  /\ pc[c] = "idle"
  /\ LET out == LoginOutcome(username, pwOk)
         u == SingleRow(Named(username))
         arg == [NoArg EXCEPT !.targetId = username, !.pwOk = pwOk] IN
       /\ currentUser' = IF out = "ok"
                         THEN [currentUser EXCEPT ![c] = [id |-> u, type |-> users[u].type]]
                         ELSE currentUser
       /\ Finish(c, IF out = "blocked" THEN Thrown("login", arg, AccountBlocked)
                    ELSE Ret("login", arg, FALSE, NoMatch,
                             IF out = "ok" THEN <<UserRow(u)>> ELSE <<>>, {}))
  /\ UNCHANGED <<users, swipes, matches, nextMatchId, messages, adminCalls, swipeCalls, swipedEver, clock, nextMsgId, deleted>>
  /\ UiReacts

Logout(c) ==
  /\ pc[c] = "idle"
  /\ currentUser[c] # NoUser
  /\ currentUser' = [currentUser EXCEPT ![c] = NoUser]
  /\ Finish(c, Ret("logout", NoArg, FALSE, NoMatch, <<>>, {}))
  /\ UNCHANGED <<users, swipes, matches, nextMatchId, messages, adminCalls, swipeCalls, swipedEver, clock, nextMsgId, deleted>>
  /\ UiReacts

\* the ids the store can give to new users rows
NewIds == {"new1", "new2"}

\* register calls between their check and their insert
RegistersInFlight == Cardinality({p \in Clients : pc[p] = "rg_insert"})

\* the users row register inserts
NewUserRow(username, type) ==
  [username |-> username, type |-> type, isBlocked |-> FALSE, focusAreas |-> {}]

\* register(user), up to the check of the username: .maybeSingle() gives a
\* row only when exactly one row has the username
RegisterCheck(c, username, type) ==
  /\ pc[c] = "idle"
  /\ Cardinality(NewIds \ DOMAIN users) > RegistersInFlight
  /\ LET arg == [NoArg EXCEPT !.targetId = username, !.type = type] IN
     IF SingleRow(Named(username)) # NoId
     THEN Finish(c, Thrown("register", arg, UsernameTaken))
     ELSE /\ pc' = [pc EXCEPT ![c] = "rg_insert"]
          /\ local' = [local EXCEPT ![c] = [NoLocal EXCEPT !.arg = arg, !.gone = deleted]]
          /\ ret' = NoRet
  /\ UNCHANGED <<users, swipes, matches, nextMatchId, messages, currentUser, adminCalls, swipeCalls, swipedEver, clock, nextMsgId, deleted>>
  /\ UiReacts

\* the insert into users; the row inserted becomes the current user
RegisterInsert(c) ==
  /\ pc[c] = "rg_insert"
  /\ LET id == CHOOSE x \in NewIds : x \notin DOMAIN users
         row == NewUserRow(local[c].arg.targetId, local[c].arg.type) IN
       /\ users' = [u \in DOMAIN users \cup {id} |-> IF u = id THEN row ELSE users[u]]
       /\ currentUser' = [currentUser EXCEPT ![c] = [id |-> id, type |-> row.type]]
       /\ Finish(c, Ret("register", local[c].arg, FALSE, NoMatch,
                        <<[id |-> id, username |-> row.username, type |-> row.type,
                           isBlocked |-> row.isBlocked, focusAreas |-> row.focusAreas]>>, {}))
  /\ UNCHANGED <<swipes, matches, nextMatchId, messages, adminCalls, swipeCalls, swipedEver, clock, nextMsgId, deleted>>
  /\ UiReacts

(* ------------------------------ swipe ---------------------------------- *)
\* the row inserted into swipes
SwipeRow(me, targetId, action) == [actorId |-> me, targetId |-> targetId, action |-> action]

\* .eq('actorId', a).eq('targetId', t).eq('action', 'like') on swipes
LikeRows(a, t) ==
  {r \in BagToSet(swipes) : r.actorId = a /\ r.targetId = t /\ r.action = "like"}

\* supabase .single(): data is a row iff exactly one row matches
Single(rows, bag) == CountRows(rows, bag) = 1

\* mutant: actorId and targetId exchanged in the reciprocal-like query
ReciprocalOwnLike(me, targetId) == Single(LikeRows(me, targetId), swipes)

\* mutant: the reciprocal-like query without .eq('action', 'like')
ReciprocalAnyAction(me, targetId) ==
  Single({r \in BagToSet(swipes) : r.actorId = targetId /\ r.targetId = me}, swipes)

\* mutant: the reciprocal-like query always yields a row
ReciprocalAlways(me, targetId) == TRUE

\* the reciprocal-like query: the LIKE rows from targetId to me, .single()
Reciprocal(me, targetId) == Single(LikeRows(targetId, me), swipes)

\* the row inserted into matches (the store supplies the id)
MatchRow(me, targetId, id) == [id |-> id, users |-> <<me, targetId>>]

\* a swipe by a on b with this action was made and has returned
SwipeDone(a, b, action) ==
  /\ <<a, b, action>> \in swipedEver
  /\ ~\E c \in Clients : /\ pc[c] \in {"sw_query", "sw_match"}
                         /\ currentUser[c].id = a
                         /\ local[c].arg.targetId = b

\* calls that may still insert a match row
LikesInFlight == Cardinality({p \in Clients : pc[p] \in {"sw_query", "sw_match"}})

\* what the store held about the pair when swipe(targetId) was called
SwipeBefore(me, targetId) ==
  (IF LikeRows(targetId, me) # {} THEN {"likedByTarget"} ELSE {})
  \cup (IF LikeRows(me, targetId) # {} THEN {"repeat"} ELSE {})
  \cup (IF PairMatches(me, targetId) # {} THEN {"matched"} ELSE {})

\* swipe(targetId, action), up to the insert into swipes
SwipeInsert(c, targetId, action) ==
  /\ pc[c] = "idle"
  /\ LET arg == [NoArg EXCEPT !.targetId = targetId, !.action = action] IN
     IF currentUser[c] = NoUser
     THEN /\ Finish(c, Ret("swipe", arg, FALSE, NoMatch, <<>>, {}))
          /\ UNCHANGED <<swipes, swipeCalls, swipedEver>>
     ELSE LET me == currentUser[c].id
              before == SwipeBefore(me, targetId) IN
          /\ swipeCalls < MaxSwipes
          /\ action = "like" => nextMatchId + LikesInFlight <= MaxMatches
          /\ swipeCalls' = swipeCalls + 1
          /\ swipes' = swipes (+) SetToBag({SwipeRow(me, targetId, action)})
          /\ swipedEver' = swipedEver \cup {<<me, targetId, action>>}
          /\ IF action = "pass"
             THEN Finish(c, Ret("swipe", arg, FALSE, NoMatch, <<>>, before))
             ELSE /\ pc' = [pc EXCEPT ![c] = "sw_query"]
                  /\ local' = [local EXCEPT ![c] = [NoLocal EXCEPT !.arg = arg, !.before = before, !.gone = deleted]]
                  /\ ret' = NoRet
  /\ UNCHANGED <<users, matches, nextMatchId, messages, currentUser, adminCalls, clock, nextMsgId, deleted>>
  /\ UiReacts

\* the reciprocal-like query and the branch on its result
SwipeQuery(c) ==
  /\ pc[c] = "sw_query"
  /\ LET me == currentUser[c].id
         targetId == local[c].arg.targetId IN
       IF Reciprocal(me, targetId)
       THEN /\ pc' = [pc EXCEPT ![c] = "sw_match"]
            /\ ret' = NoRet
            /\ UNCHANGED local
       ELSE Finish(c, Ret("swipe", local[c].arg, FALSE, NoMatch, <<>>, local[c].before))
  /\ UNCHANGED <<users, swipes, matches, nextMatchId, messages, currentUser, adminCalls, swipeCalls, swipedEver, clock, nextMsgId, deleted>>
  /\ UiReacts

\* the insert into matches; the inserted row is returned
SwipeMatch(c) ==
  /\ pc[c] = "sw_match"
  /\ LET me == currentUser[c].id
         targetId == local[c].arg.targetId
         row == MatchRow(me, targetId, nextMatchId) IN
       /\ matches' = matches \cup {row}
       /\ nextMatchId' = nextMatchId + 1
       /\ Finish(c, Ret("swipe", local[c].arg, FALSE, row, <<>>, local[c].before))
  /\ UNCHANGED <<users, swipes, messages, currentUser, adminCalls, swipeCalls, swipedEver, clock, nextMsgId, deleted>>
  /\ UiReacts

(* --------------------------- getPotentials ----------------------------- *)
\* 1. the ids I have already swiped, plus myself
SwipedIds(me) == {r.targetId : r \in {x \in BagToSet(swipes) : x.actorId = me}} \cup {me}

\* mutant: a COMPANY requester's preference is honoured
TargetTypesPrefFirst(myType, pref) ==
  IF pref # NoPref THEN {pref}
  ELSE IF myType = COMPANY THEN {RESEARCHER}
  ELSE {COMPANY, RESEARCHER}

\* mutant: the preference is ignored
TargetTypesIgnorePref(myType, pref) ==
  IF myType = COMPANY THEN {RESEARCHER} ELSE {COMPANY, RESEARCHER}

\* 2. the target types
TargetTypes(myType, pref) ==
  IF myType = COMPANY THEN {RESEARCHER}
  ELSE IF pref # NoPref THEN {pref}
  ELSE {COMPANY, RESEARCHER}

\* mutant: the users query without .neq('isBlocked', true)
CandidatesBlockedToo(targetTypes) ==
  {u \in DOMAIN users : users[u].type # ADMIN /\ users[u].type \in targetTypes}

\* 3. the users query: not blocked, not ADMIN, of a target type
Candidates(targetTypes) ==
  {u \in DOMAIN users : /\ users[u].isBlocked # TRUE
                        /\ users[u].type # ADMIN
                        /\ users[u].type \in targetTypes}

\* mutant: the focus-area filter is skipped
FilterResultsNoTopic(candidates, swipedIds, filter) ==
  {u \in candidates : u \notin swipedIds}

\* the client-side filters: swiped ids, then the focus area
FilterResults(candidates, swipedIds, filter) ==
  {u \in candidates : /\ u \notin swipedIds
                      /\ filter # NoFilter => filter \in users[u].focusAreas}

\* the targets of the swipes I had completed when getPotentials was called
PotentialsBefore(me) == {t \in Ids : \E a \in {"like", "pass"} : SwipeDone(me, t, a)}

\* getPotentials(filterFocusArea, targetTypePreference), up to the read of swipes
GetPotentialsSwipes(c, filter, pref) ==
  /\ pc[c] = "idle"
  /\ LET arg == [NoArg EXCEPT !.filter = filter, !.pref = pref] IN
     IF currentUser[c] = NoUser
     THEN Finish(c, Ret("getPotentials", arg, FALSE, NoMatch, <<>>, {}))
     ELSE LET me == currentUser[c].id IN
          /\ pc' = [pc EXCEPT ![c] = "gp_users"]
          /\ local' = [local EXCEPT ![c] =
                 [NoLocal EXCEPT !.arg = arg, !.swipedIds = SwipedIds(me),
                                 !.before = PotentialsBefore(me), !.gone = deleted]]
          /\ ret' = NoRet
  /\ UNCHANGED <<users, swipes, matches, nextMatchId, messages, currentUser, adminCalls, swipeCalls, swipedEver, clock, nextMsgId, deleted>>
  /\ UiReacts

\* the read of users, the filters and the random sort
GetPotentialsUsers(c) ==
  /\ pc[c] = "gp_users"
  /\ LET results == FilterResults(Candidates(TargetTypes(currentUser[c].type, local[c].arg.pref)),
                                  local[c].swipedIds, local[c].arg.filter) IN
       \E order \in Orders(results) :
          Finish(c, Ret("getPotentials", local[c].arg, FALSE, NoMatch,
                        [i \in 1..Len(order) |-> UserRow(order[i])], local[c].before))
  /\ UNCHANGED <<users, swipes, matches, nextMatchId, messages, currentUser, adminCalls, swipeCalls, swipedEver, clock, nextMsgId, deleted>>
  /\ UiReacts

(* ----------------------------- getMatches ------------------------------ *)
\* .contains('users', [me])
MatchesOf(me) == {m \in matches : m.users[1] = me \/ m.users[2] = me}

\* mutant: the first id of the row, whoever it is
OtherIdFirst(m, me) == m.users[1]

\* m.users.find(id => id !== me)
OtherId(m, me) ==
  IF m.users[1] # me THEN m.users[1]
  ELSE IF m.users[2] # me THEN m.users[2]
  ELSE NoId

\* the users whose like of me and my like of them had both completed when
\* getMatches was called
MatchesBefore(me) ==
  {t \in Ids \ {me} : SwipeDone(me, t, "like") /\ SwipeDone(t, me, "like")}

\* getMatches(), up to the read of matches
GetMatchesQuery(c) ==
  /\ pc[c] = "idle"
  /\ IF currentUser[c] = NoUser
     THEN Finish(c, Ret("getMatches", NoArg, FALSE, NoMatch, <<>>, {}))
     ELSE LET me == currentUser[c].id IN
          IF MatchesOf(me) = {}
          THEN Finish(c, Ret("getMatches", NoArg, FALSE, NoMatch, <<>>, MatchesBefore(me)))
          ELSE /\ pc' = [pc EXCEPT ![c] = "gm_fetch"]
               /\ local' = [local EXCEPT ![c] =
                      [NoLocal EXCEPT !.rows = ById(MatchesOf(me)), !.before = MatchesBefore(me),
                                      !.gone = deleted]]
               /\ ret' = NoRet
  /\ UNCHANGED <<users, swipes, matches, nextMatchId, messages, currentUser, adminCalls, swipeCalls, swipedEver, clock, nextMsgId, deleted>>
  /\ UiReacts

\* one turn of the loop: fetch the other user and push the pair if found
GetMatchesFetch(c) ==
  /\ pc[c] = "gm_fetch"
  /\ LET m == Head(local[c].rows)
         otherId == OtherId(m, currentUser[c].id)
         results == IF otherId # NoId /\ otherId \in DOMAIN users
                    THEN Append(local[c].results, [match |-> m, otherUser |-> UserRow(otherId)])
                    ELSE local[c].results IN
       IF Tail(local[c].rows) = <<>>
       THEN Finish(c, Ret("getMatches", NoArg, FALSE, NoMatch, results, local[c].before))
       ELSE /\ local' = [local EXCEPT ![c].rows = Tail(@), ![c].results = results]
            /\ ret' = NoRet
            /\ UNCHANGED <<pc>>
  /\ UNCHANGED <<users, swipes, matches, nextMatchId, messages, currentUser, adminCalls, swipeCalls, swipedEver, clock, nextMsgId, deleted>>
  /\ UiReacts

(* ------------------------------ messages ------------------------------ *)
\* the rows of the messages table, as a set
MessageRows == {messages[i] : i \in 1..Len(messages)}

\* the row inserted into messages (the store supplies the id); after is
\* history: the ids of the rows the store held when sendMessage was called
MessageRow(id, me, receiverId, content, stamp, after) ==
  [id |-> id, senderId |-> me, receiverId |-> receiverId, content |-> content,
   timestamp |-> stamp, after |-> after]

\* mutant: sendMessage without the check of the current user
SendMessageCallAnon(c, receiverId, content) ==
  /\ pc[c] = "idle"
  /\ nextMsgId + Cardinality({p \in Clients : pc[p] = "sm_insert"}) <= MaxMessages
  /\ \E now \in 1..MaxTime :
        /\ now >= clock[c]
        /\ clock' = [clock EXCEPT ![c] = now]
        /\ local' = [local EXCEPT ![c] =
               [NoLocal EXCEPT !.arg = [NoArg EXCEPT !.targetId = receiverId, !.content = content,
                                                     !.stamp = now],
                               !.before = {m.id : m \in MessageRows},
                               !.gone = deleted]]
  /\ pc' = [pc EXCEPT ![c] = "sm_insert"]
  /\ ret' = NoRet
  /\ UNCHANGED <<users, swipes, matches, nextMatchId, messages, currentUser, adminCalls, swipeCalls, swipedEver, nextMsgId, deleted>>
  /\ UiReacts

\* sendMessage(receiverId, content), up to the request: the row is built
\* with the value of Date.now() on the caller's machine
SendMessageCall(c, receiverId, content) ==
  /\ pc[c] = "idle"
  /\ LET arg == [NoArg EXCEPT !.targetId = receiverId, !.content = content] IN
     IF currentUser[c] = NoUser
     THEN /\ Finish(c, Ret("sendMessage", arg, FALSE, NoMatch, <<>>, {}))
          /\ UNCHANGED clock
     ELSE /\ nextMsgId + Cardinality({p \in Clients : pc[p] = "sm_insert"}) <= MaxMessages
          /\ \E now \in 1..MaxTime :
                /\ now >= clock[c]
                /\ clock' = [clock EXCEPT ![c] = now]
                /\ local' = [local EXCEPT ![c] =
                       [NoLocal EXCEPT !.arg = [arg EXCEPT !.stamp = now],
                                       !.before = {m.id : m \in MessageRows},
                                       !.gone = deleted]]
          /\ pc' = [pc EXCEPT ![c] = "sm_insert"]
          /\ ret' = NoRet
  /\ UNCHANGED <<users, swipes, matches, nextMatchId, messages, currentUser, adminCalls, swipeCalls, swipedEver, nextMsgId, deleted>>
  /\ UiReacts

\* mutant: the insert replaces the rows of the table
SendMessageInsertOverwrite(c) ==
  /\ pc[c] = "sm_insert"
  /\ messages' = <<MessageRow(nextMsgId, currentUser[c].id, local[c].arg.targetId,
                               local[c].arg.content, local[c].arg.stamp, local[c].before)>>
  /\ nextMsgId' = nextMsgId + 1
  /\ Finish(c, Ret("sendMessage", local[c].arg, FALSE, NoMatch, <<>>, local[c].before))
  /\ UNCHANGED <<users, swipes, matches, nextMatchId, currentUser, adminCalls, swipeCalls, swipedEver, clock, deleted>>
  /\ UiReacts

\* the insert into messages
SendMessageInsert(c) ==
  /\ pc[c] = "sm_insert"
  /\ messages' = Append(messages,
         MessageRow(nextMsgId, currentUser[c].id, local[c].arg.targetId,
                    local[c].arg.content, local[c].arg.stamp, local[c].before))
  /\ nextMsgId' = nextMsgId + 1
  /\ Finish(c, Ret("sendMessage", local[c].arg, FALSE, NoMatch, <<>>, local[c].before))
  /\ UNCHANGED <<users, swipes, matches, nextMatchId, currentUser, adminCalls, swipeCalls, swipedEver, clock, deleted>>
  /\ UiReacts

\* mutant: only the messages the caller sent
ConversationRowsSentOnly(me, partnerId) ==
  {m \in MessageRows : m.senderId = me /\ m.receiverId = partnerId}

\* .or(and(senderId = me, receiverId = partner), and(senderId = partner, receiverId = me))
ConversationRows(me, partnerId) ==
  {m \in MessageRows : \/ m.senderId = me /\ m.receiverId = partnerId
                       \/ m.senderId = partnerId /\ m.receiverId = me}

\* mutant: the rows in any order
OrderedAnyhow(rows) == Orders(rows)

\* .order('timestamp', ascending): the rows by timestamp; the store fixes no
\* order among rows of equal timestamp
OrderedByTimestamp(rows) ==
  {s \in Orders(rows) : \A i, j \in 1..Len(s) : i < j => s[i].timestamp <= s[j].timestamp}

\* getConversation(partnerId): one read of messages
GetConversation(c, partnerId) ==
  /\ pc[c] = "idle"
  /\ LET arg == [NoArg EXCEPT !.targetId = partnerId] IN
     IF currentUser[c] = NoUser
     THEN Finish(c, Ret("getConversation", arg, FALSE, NoMatch, <<>>, {}))
     ELSE \E data \in OrderedByTimestamp(ConversationRows(currentUser[c].id, partnerId)) :
             Finish(c, Ret("getConversation", arg, FALSE, NoMatch, data, {}))
  /\ UNCHANGED <<users, swipes, matches, nextMatchId, messages, currentUser, adminCalls, swipeCalls, swipedEver, clock, nextMsgId, deleted>>
  /\ UiReacts

(* ------------------------------- Admin --------------------------------- *)
\* a set of ids as a sequence (the order of the rows is not modelled)
RECURSIVE IdSeq(_)
IdSeq(S) ==
  IF S = {} THEN <<>>
  ELSE LET u == CHOOSE x \in S : TRUE IN <<u>> \o IdSeq(S \ {u})

\* mutant: the blocked profiles are left out as well
AllUsersRowsUnblocked == {u \in DOMAIN users : users[u].type # ADMIN /\ ~users[u].isBlocked}

\* .neq('type', ADMIN)
AllUsersRows == {u \in DOMAIN users : users[u].type # ADMIN}

\* getAllUsers(): one read of users
GetAllUsers(p) ==
  /\ pc[p] = "idle"
  /\ LET ids == IdSeq(AllUsersRows) IN
       Finish(p, Ret("getAllUsers", NoArg, FALSE, NoMatch,
                     [i \in 1..Len(ids) |-> UserRow(ids[i])], {}))
  /\ UNCHANGED <<users, swipes, matches, nextMatchId, messages, currentUser, adminCalls, swipeCalls, swipedEver, clock, nextMsgId, deleted>>
  /\ UiReacts

\* toggleBlock: the read of isBlocked
ToggleBlockLookup(p, userId) ==
  /\ pc[p] = "idle"
  /\ LET arg == [NoArg EXCEPT !.targetId = userId] IN
     IF userId \notin DOMAIN users
     THEN Finish(p, Ret("toggleBlock", arg, FALSE, NoMatch, <<>>, {}))
     ELSE /\ pc' = [pc EXCEPT ![p] = "tb_write"]
          /\ local' = [local EXCEPT ![p] = [NoLocal EXCEPT !.arg = arg,
                                                           !.isBlocked = users[userId].isBlocked]]
          /\ ret' = NoRet
  /\ UNCHANGED <<users, swipes, matches, nextMatchId, messages, currentUser, swipeCalls, swipedEver, clock, nextMsgId, deleted>>
  /\ UiReacts

\* a toggleBlock call that counts against the budget of moderation calls
ToggleBlockRead(p, userId) ==
  /\ adminCalls < MaxAdminCalls
  /\ adminCalls' = adminCalls + 1
  /\ ToggleBlockLookup(p, userId)

\* a toggleBlock call that is not counted: the flags of the profiles are a
\* finite state on their own
ToggleBlock(p, userId) ==
  /\ ToggleBlockLookup(p, userId)
  /\ UNCHANGED adminCalls

\* toggleBlock: the update with the negation of the value read
ToggleBlockWrite(p) ==
  /\ pc[p] = "tb_write"
  /\ LET userId == local[p].arg.targetId IN
       users' = IF userId \in DOMAIN users
                THEN [users EXCEPT ![userId].isBlocked = ~local[p].isBlocked]
                ELSE users
  /\ Finish(p, Ret("toggleBlock", local[p].arg, FALSE, NoMatch, <<>>, {}))
  /\ UNCHANGED <<swipes, matches, nextMatchId, messages, currentUser, adminCalls, swipeCalls, swipedEver, clock, nextMsgId, deleted>>
  /\ UiReacts

\* deleteUser: four separate deletes, users first
DeleteUserUsers(p, userId) ==
  /\ pc[p] = "idle"
  /\ adminCalls < MaxAdminCalls
  /\ adminCalls' = adminCalls + 1
  /\ users' = [u \in DOMAIN users \ {userId} |-> users[u]]
  /\ pc' = [pc EXCEPT ![p] = "del_swipes"]
  /\ local' = [local EXCEPT ![p] = [NoLocal EXCEPT !.arg = [NoArg EXCEPT !.targetId = userId]]]
  /\ ret' = NoRet
  /\ UNCHANGED <<swipes, matches, nextMatchId, messages, currentUser, swipeCalls, swipedEver, clock, nextMsgId, deleted>>
  /\ UiReacts

DeleteUserSwipes(p) ==
  /\ pc[p] = "del_swipes"
  /\ LET userId == local[p].arg.targetId
         keep == {r \in BagToSet(swipes) : r.actorId # userId /\ r.targetId # userId} IN
       swipes' = [r \in keep |-> swipes[r]]
  /\ pc' = [pc EXCEPT ![p] = "del_matches"]
  /\ ret' = NoRet
  /\ UNCHANGED <<users, matches, nextMatchId, messages, currentUser, local, adminCalls, swipeCalls, swipedEver, clock, nextMsgId, deleted>>
  /\ UiReacts

DeleteUserMatches(p) ==
  /\ pc[p] = "del_matches"
  /\ matches' = matches \ MatchesOf(local[p].arg.targetId)
  /\ pc' = [pc EXCEPT ![p] = "del_messages"]
  /\ ret' = NoRet
  /\ UNCHANGED <<users, swipes, nextMatchId, messages, currentUser, local, adminCalls, swipeCalls, swipedEver, clock, nextMsgId, deleted>>
  /\ UiReacts

DeleteUserMessages(p) ==
  /\ pc[p] = "del_messages"
  /\ LET userId == local[p].arg.targetId IN
       messages' = SelectSeq(messages, LAMBDA m : m.senderId # userId /\ m.receiverId # userId)
  /\ deleted' = deleted \cup {local[p].arg.targetId}
  /\ Finish(p, Ret("deleteUser", local[p].arg, FALSE, NoMatch, <<>>, {}))
  /\ UNCHANGED <<users, swipes, matches, nextMatchId, currentUser, adminCalls, swipeCalls, swipedEver, clock, nextMsgId>>
  /\ UiReacts

(* --------------------------- store failures ---------------------------- *)
\* A request that fails changes nothing in the store and gives the caller
\* { data: null, error }.

\* swipe: the insert into swipes fails; insertError is thrown
SwipeInsertFails(c, targetId, action) ==
  /\ pc[c] = "idle"
  /\ currentUser[c] # NoUser
  /\ targetId # currentUser[c].id
  /\ Finish(c, Faulted(Thrown("swipe", [NoArg EXCEPT !.targetId = targetId, !.action = action],
                              StoreError)))
  /\ UNCHANGED <<users, swipes, matches, nextMatchId, messages, currentUser, adminCalls, swipeCalls, swipedEver, clock, nextMsgId, deleted>>
  /\ UiReacts

\* swipe: the reciprocal-like query fails; its error is not read, reciprocal
\* is null and the call returns null
SwipeQueryFails(c) ==
  /\ pc[c] = "sw_query"
  /\ Finish(c, Faulted(Ret("swipe", local[c].arg, FALSE, NoMatch, <<>>, local[c].before)))
  /\ UNCHANGED <<users, swipes, matches, nextMatchId, messages, currentUser, adminCalls, swipeCalls, swipedEver, clock, nextMsgId, deleted>>
  /\ UiReacts

\* swipe: the insert into matches fails; matchError is thrown
SwipeMatchFails(c) ==
  /\ pc[c] = "sw_match"
  /\ Finish(c, Faulted(Thrown("swipe", local[c].arg, StoreError)))
  /\ UNCHANGED <<users, swipes, matches, nextMatchId, messages, currentUser, adminCalls, swipeCalls, swipedEver, clock, nextMsgId, deleted>>
  /\ UiReacts

\* sendMessage: the insert into messages fails; error is thrown
SendMessageInsertFails(c) ==
  /\ pc[c] = "sm_insert"
  /\ Finish(c, Faulted(Thrown("sendMessage", local[c].arg, StoreError)))
  /\ UNCHANGED <<users, swipes, matches, nextMatchId, messages, currentUser, adminCalls, swipeCalls, swipedEver, clock, nextMsgId, deleted>>
  /\ UiReacts

\* register: the insert into users fails; error is thrown
RegisterInsertFails(c) ==
  /\ pc[c] = "rg_insert"
  /\ Finish(c, Faulted(Thrown("register", local[c].arg, StoreError)))
  /\ UNCHANGED <<users, swipes, matches, nextMatchId, messages, currentUser, adminCalls, swipeCalls, swipedEver, clock, nextMsgId, deleted>>
  /\ UiReacts

\* getPotentials: the read of swipes fails; swipeError is thrown
GetPotentialsSwipesFails(c, filter, pref) ==
  /\ pc[c] = "idle"
  /\ currentUser[c] # NoUser
  /\ Finish(c, Faulted(Thrown("getPotentials", [NoArg EXCEPT !.filter = filter, !.pref = pref],
                              StoreError)))
  /\ UNCHANGED <<users, swipes, matches, nextMatchId, messages, currentUser, adminCalls, swipeCalls, swipedEver, clock, nextMsgId, deleted>>
  /\ UiReacts

\* getPotentials: the read of users fails; userError is thrown
GetPotentialsUsersFails(c) ==
  /\ pc[c] = "gp_users"
  /\ Finish(c, Faulted(Thrown("getPotentials", local[c].arg, StoreError)))
  /\ UNCHANGED <<users, swipes, matches, nextMatchId, messages, currentUser, adminCalls, swipeCalls, swipedEver, clock, nextMsgId, deleted>>
  /\ UiReacts

\* getMatches: the read of matches fails; error is thrown
GetMatchesQueryFails(c) ==
  /\ pc[c] = "idle"
  /\ currentUser[c] # NoUser
  /\ Finish(c, Faulted(Thrown("getMatches", NoArg, StoreError)))
  /\ UNCHANGED <<users, swipes, matches, nextMatchId, messages, currentUser, adminCalls, swipeCalls, swipedEver, clock, nextMsgId, deleted>>
  /\ UiReacts

(* ------------------------------ SwipeDeck ------------------------------ *)
\* handleSwipe: the card swiped comes from getPotentials, so it is never the
\* user's own profile
DeckSwipe(c, targetId, action) ==
  /\ targetId # currentUser[c].id
  /\ SwipeInsert(c, targetId, action)

(* --------------------------- specifications ---------------------------- *)
\* the usernames typed into each browser, and the profiles a deck can show
LoginAs(c) == IF c = "c1" THEN {"org1", "ind2"} ELSE {"ind1", "ind2"}
CascadeLoginAs(c) == IF c = "c1" THEN {"org1"} ELSE {"ind1", "ind2"}
Targets == {"org1", "ind1", "ind2"}
Actions == {"like", "pass"}
Filters == Topics \cup {NoFilter}
Prefs == {NoPref, COMPANY, RESEARCHER, ADMIN}
Moderated == {"org1", "ind1"}
PoolClients == {"c1"}
ChatLoginAs(c) == IF c = "c1" THEN {"org1"} ELSE {"ind1", "ind2"}
Receivers == {"org1", "ind1", "ind2", NoId}
Contents == {"hi", "", " "}

\* the matching core: sessions, swipes and the match list
Next ==
  \/ \E c \in Clients : \E u \in LoginAs(c) : Login(c, u, TRUE)
  \/ \E c \in Clients : Logout(c)
  \/ \E c \in Clients, t \in Targets, a \in Actions : DeckSwipe(c, t, a)
  \/ \E c \in Clients : SwipeQuery(c)
  \/ \E c \in Clients : SwipeMatch(c)
  \/ \E c \in Clients : GetMatchesQuery(c)
  \/ \E c \in Clients : GetMatchesFetch(c)

Spec == Init /\ [][Next]_vars

\* swipes of two browsers while the moderation console deletes a user
NextCascade ==
  \/ \E c \in Clients : \E u \in CascadeLoginAs(c) : Login(c, u, TRUE)
  \/ \E c \in Clients, t \in Targets, a \in Actions : DeckSwipe(c, t, a)
  \/ \E c \in Clients : SwipeQuery(c)
  \/ \E c \in Clients : SwipeMatch(c)
  \/ \E p \in Consoles, u \in Moderated : DeleteUserUsers(p, u)
  \/ \E p \in Consoles : DeleteUserSwipes(p)
  \/ \E p \in Consoles : DeleteUserMatches(p)
  \/ \E p \in Consoles : DeleteUserMessages(p)

SpecCascade == Init /\ [][NextCascade]_vars

\* the candidate pool of one browser while the console blocks and deletes
NextPool ==
  \/ \E c \in PoolClients : \E u \in LoginAs(c) : Login(c, u, TRUE)
  \/ \E c \in PoolClients : Logout(c)
  \/ \E c \in PoolClients, t \in Targets, a \in Actions : DeckSwipe(c, t, a)
  \/ \E c \in PoolClients : SwipeQuery(c)
  \/ \E c \in PoolClients, f \in Filters, t \in Prefs : GetPotentialsSwipes(c, f, t)
  \/ \E c \in PoolClients : GetPotentialsUsers(c)
  \/ \E p \in Consoles, u \in Ids : ToggleBlockRead(p, u)
  \/ \E p \in Consoles : ToggleBlockWrite(p)
  \/ \E p \in Consoles, u \in Ids : DeleteUserUsers(p, u)
  \/ \E p \in Consoles : DeleteUserSwipes(p)
  \/ \E p \in Consoles : DeleteUserMatches(p)
  \/ \E p \in Consoles : DeleteUserMessages(p)

SpecPool == Init /\ [][NextPool]_vars

\* swipe called with any target id, the caller's own included
NextDirect ==
  \/ \E c \in Clients : \E u \in LoginAs(c) : Login(c, u, TRUE)
  \/ \E c \in Clients, t \in Targets, a \in Actions : SwipeInsert(c, t, a)
  \/ \E c \in Clients : SwipeQuery(c)
  \/ \E c \in Clients : SwipeMatch(c)

SpecDirect == Init /\ [][NextDirect]_vars

\* the inputs of the two partners while the console deletes one of them
EraseLoginAs(c) == IF c = "c1" THEN {"org1"} ELSE {"ind1"}
Partners == {"org1", "ind1"}
Erased == {"ind1"}

\* two partners swiping while one of them chats and lists and the console
\* deletes the other
NextErase ==
  \/ \E c \in Clients : \E u \in EraseLoginAs(c) : Login(c, u, TRUE)
  \/ \E c \in Clients, t \in Partners : DeckSwipe(c, t, "like")
  \/ \E c \in Clients : SwipeQuery(c)
  \/ \E c \in Clients : SwipeMatch(c)
  \/ \E c \in PoolClients : GetMatchesQuery(c)
  \/ \E c \in PoolClients : GetMatchesFetch(c)
  \/ \E c \in PoolClients : GetPotentialsSwipes(c, NoFilter, NoPref)
  \/ \E c \in PoolClients : GetPotentialsUsers(c)
  \/ \E c \in PoolClients, r \in Erased : SendMessageCall(c, r, "hi")
  \/ \E c \in PoolClients : SendMessageInsert(c)
  \/ \E c \in PoolClients, r \in Erased : GetConversation(c, r)
  \/ \E p \in Consoles : GetAllUsers(p)
  \/ \E p \in Consoles, u \in Erased : DeleteUserUsers(p, u)
  \/ \E p \in Consoles : DeleteUserSwipes(p)
  \/ \E p \in Consoles : DeleteUserMatches(p)
  \/ \E p \in Consoles : DeleteUserMessages(p)

SpecErase == Init /\ [][NextErase]_vars

\* two browsers exchanging messages and reading conversations
NextChat ==
  \/ \E c \in Clients : \E u \in ChatLoginAs(c) : Login(c, u, TRUE)
  \/ \E c \in Clients, r \in Receivers, t \in Contents : SendMessageCall(c, r, t)
  \/ \E c \in Clients : SendMessageInsert(c)
  \/ \E c \in Clients, r \in Receivers : GetConversation(c, r)

SpecChat == Init /\ [][NextChat]_vars

\* the ids given to toggleBlock: two profiles and an id no profile has
Toggled == {"org1", "ind1", "nobody"}

\* logins with a right or a wrong password and candidate pools while the
\* console blocks and unblocks profiles and lists the directory
NextBlock ==
  \/ \E c \in Clients : \E u \in LoginAs(c), pwOk \in BOOLEAN : Login(c, u, pwOk)
  \/ \E c \in Clients : Logout(c)
  \/ \E c \in Clients : GetPotentialsSwipes(c, NoFilter, NoPref)
  \/ \E c \in Clients : GetPotentialsUsers(c)
  \/ \E p \in Consoles : GetAllUsers(p)
  \/ \E p \in Consoles, u \in Toggled : ToggleBlock(p, u)
  \/ \E p \in Consoles : ToggleBlockWrite(p)

SpecBlock == Init /\ [][NextBlock]_vars

\* the usernames typed into the registration form, one of them taken
Usernames == {"org1", "zed"}
RegisterTypes == {COMPANY, RESEARCHER}

\* two browsers registering and logging in
NextRegister ==
  \/ \E c \in Clients, u \in Usernames, t \in RegisterTypes : RegisterCheck(c, u, t)
  \/ \E c \in Clients : RegisterInsert(c)
  \/ \E c \in Clients, u \in Usernames : Login(c, u, TRUE)
  \/ \E c \in Clients : Logout(c)
  \/ \E p \in Consoles : GetAllUsers(p)

SpecRegister == Init /\ [][NextRegister]_vars

\* the calls of two partners while requests to the store may fail
NextFaulty ==
  \/ \E c \in Clients : \E u \in EraseLoginAs(c) : Login(c, u, TRUE)
  \/ \E c \in Clients, t \in Partners : DeckSwipe(c, t, "like")
  \/ \E c \in Clients : SwipeQuery(c)
  \/ \E c \in Clients : SwipeMatch(c)
  \/ \E c \in Clients, t \in Partners : SwipeInsertFails(c, t, "like")
  \/ \E c \in Clients : SwipeQueryFails(c)
  \/ \E c \in Clients : SwipeMatchFails(c)
  \/ \E c \in PoolClients, r \in Erased : SendMessageCall(c, r, "hi")
  \/ \E c \in PoolClients : SendMessageInsert(c)
  \/ \E c \in PoolClients : SendMessageInsertFails(c)
  \/ \E c \in PoolClients : RegisterCheck(c, "zed", RESEARCHER)
  \/ \E c \in PoolClients : RegisterInsert(c)
  \/ \E c \in PoolClients : RegisterInsertFails(c)
  \/ \E c \in PoolClients : GetPotentialsSwipes(c, NoFilter, NoPref)
  \/ \E c \in PoolClients : GetPotentialsUsers(c)
  \/ \E c \in PoolClients : GetPotentialsSwipesFails(c, NoFilter, NoPref)
  \/ \E c \in PoolClients : GetPotentialsUsersFails(c)
  \/ \E c \in PoolClients : GetMatchesQuery(c)
  \/ \E c \in PoolClients : GetMatchesFetch(c)
  \/ \E c \in PoolClients : GetMatchesQueryFails(c)

SpecFaulty == Init /\ [][NextFaulty]_vars

\* one browser making every call with and without a session
NextAnon ==
  \/ \E c \in PoolClients : \E u \in Partners, pwOk \in BOOLEAN : Login(c, u, pwOk)
  \/ \E c \in PoolClients : Logout(c)
  \/ \E c \in PoolClients, t \in Partners : DeckSwipe(c, t, "like")
  \/ \E c \in PoolClients : SwipeQuery(c)
  \/ \E c \in PoolClients : SwipeMatch(c)
  \/ \E c \in PoolClients : GetPotentialsSwipes(c, NoFilter, NoPref)
  \/ \E c \in PoolClients : GetPotentialsUsers(c)
  \/ \E c \in PoolClients : GetMatchesQuery(c)
  \/ \E c \in PoolClients : GetMatchesFetch(c)
  \/ \E c \in PoolClients, r \in Partners : SendMessageCall(c, r, "hi")
  \/ \E c \in PoolClients : SendMessageInsert(c)
  \/ \E c \in PoolClients, r \in Partners : GetConversation(c, r)

SpecAnon == Init /\ [][NextAnon]_vars

\* the browser whose user the console blocks or deletes
StaleClients == {"c2"}

\* two partners swiping, one of them sending messages, while the console
\* blocks, unblocks and deletes that one
NextStale ==
  \/ \E c \in Clients : \E u \in EraseLoginAs(c) : Login(c, u, TRUE)
  \/ \E c \in Clients, t \in Partners : DeckSwipe(c, t, "like")
  \/ \E c \in Clients : SwipeQuery(c)
  \/ \E c \in Clients : SwipeMatch(c)
  \/ \E c \in StaleClients, r \in Partners : SendMessageCall(c, r, "hi")
  \/ \E c \in StaleClients : SendMessageInsert(c)
  \/ \E p \in Consoles, u \in Erased : ToggleBlock(p, u)
  \/ \E p \in Consoles : ToggleBlockWrite(p)
  \/ \E p \in Consoles, u \in Erased : DeleteUserUsers(p, u)
  \/ \E p \in Consoles : DeleteUserSwipes(p)
  \/ \E p \in Consoles : DeleteUserMatches(p)
  \/ \E p \in Consoles : DeleteUserMessages(p)

SpecStale == Init /\ [][NextStale]_vars

\* two moderation consoles blocking and unblocking the same profiles while
\* a browser logs in
NextToggle ==
  \/ \E p \in Moderators, u \in Toggled : ToggleBlock(p, u)
  \/ \E p \in Moderators : ToggleBlockWrite(p)
  \/ \E p \in Moderators : GetAllUsers(p)
  \/ \E c \in PoolClients : \E u \in LoginAs(c) : Login(c, u, TRUE)
  \/ \E c \in PoolClients : Logout(c)

SpecToggle == Init /\ [][NextToggle]_vars

(* ----------------------- SwipeDeck, the component ---------------------- *)
\* fetchCandidates, up to its call of getPotentials: setLoading(true)
FetchCandidates(c) ==
  /\ ~ui[c].fetch
  /\ ui' = [ui EXCEPT ![c].loading = TRUE, ![c].fetch = TRUE]
  /\ UiOnly

\* fetchCandidates: getPotentials(filter || undefined, targetType), with the
\* filter and the target type the selectors hold
DeckRequest(c, filter, targetType) ==
  /\ ui[c].fetch
  /\ GetPotentialsSwipes(c, filter, targetType)

\* handleSwipe(action): the like and pass buttons are rendered while the deck
\* is not loading and not finished; the handler captures the card at
\* currentIndex and sets the 200 ms timer, and changes no state the buttons
\* depend on
HandleSwipe(c, action) ==
  /\ ~ui[c].loading
  /\ ui[c].index <= Len(ui[c].candidates)
  /\ Len(ui[c].timers) < MaxTimers
  /\ ui' = [ui EXCEPT ![c].timers =
              Append(@, [targetId |-> ui[c].candidates[ui[c].index], action |-> action])]
  /\ UiOnly

\* the callback of the timer: the index advances and swipe is called for the
\* card the handler had captured
DeckTimer(c) ==
  /\ ui[c].timers # <<>>
  /\ SwipeInsert(c, Head(ui[c].timers).targetId, Head(ui[c].timers).action)

\* the target types the selector of the deck offers
DeckTargetTypes == {COMPANY, RESEARCHER}

\* one browser with the deck open, the other swiping back
NextDeck ==
  \/ \E c \in Clients : \E u \in EraseLoginAs(c) : Login(c, u, TRUE)
  \/ \E c \in PoolClients : FetchCandidates(c)
  \/ \E c \in PoolClients, t \in DeckTargetTypes : DeckRequest(c, NoFilter, t)
  \/ \E c \in PoolClients : GetPotentialsUsers(c)
  \/ \E c \in PoolClients, a \in Actions : HandleSwipe(c, a)
  \/ \E c \in PoolClients : DeckTimer(c)
  \/ \E c \in StaleClients : DeckSwipe(c, "org1", "like")
  \/ \E c \in Clients : SwipeQuery(c)
  \/ \E c \in Clients : SwipeMatch(c)

SpecDeck == Init /\ [][NextDeck]_vars

(* ------------------------------ properties ----------------------------- *)
\* no swipe call is between its insert and its return
NoSwipeInFlight == \A c \in Clients : pc[c] \notin {"sw_query", "sw_match"}

\* the ledger holds exactly one LIKE row from a to b
LikedOnce(a, b) == CountRows(LikeRows(a, b), swipes) = 1

\* the two users of a match row
UsersOf(m) == {m.users[1], m.users[2]}

\* C1: in every reachable state the matches table holds at most one row for
\* each unordered pair {A, B}
AtMostOneMatchPerPair ==
  \A a, b \in Ids : Cardinality(PairMatches(a, b)) <= 1

\* C2: when A and B have each liked the other once and both swipe calls have
\* returned, in whatever order their store steps ran, exactly one match row
\* exists for {A, B} and a match returned by either call is that row
ConcurrentLikesConverge ==
  \A a, b \in Ids :
    (a # b /\ LikedOnce(a, b) /\ LikedOnce(b, a) /\ NoSwipeInFlight) =>
       /\ Cardinality(PairMatches(a, b)) = 1
       /\ (ret.op = "swipe" /\ ret.match # NoMatch /\ {ret.user, ret.arg.targetId} = {a, b})
            => PairMatches(a, b) = {ret.match}

\* C3: a getMatches() call made by A after A's like of B and B's like of A
\* have both completed returns the match of {A, B} joined with B's profile
MutualLikesListed ==
  (ret.op = "getMatches" /\ ret.user # NoId) =>
     \A b \in ret.before :
        \E i \in 1..Len(ret.list) :
           /\ UsersOf(ret.list[i].match) = {ret.user, b}
           /\ ret.list[i].otherUser.id = b

\* C4: a match row exists for {A, B} iff the ledger holds a LIKE from A to B
\* and a LIKE from B to A: no match row without both likes, and a match row
\* whenever both likes are recorded and the swipe calls have returned
MatchIffBothLikes ==
  \A a, b \in Ids :
    a # b =>
       /\ PairMatches(a, b) # {} => (LikeRows(a, b) # {} /\ LikeRows(b, a) # {})
       /\ (LikeRows(a, b) # {} /\ LikeRows(b, a) # {} /\ NoSwipeInFlight)
            => PairMatches(a, b) # {}

\* C5: swipe(B, like) by A returns a match holding both ids if B had already
\* liked A when it was called, and returns null if B has never liked A
SecondLikerGetsMatch ==
  (ret.op = "swipe" /\ ret.user # NoId /\ ret.arg.action = "like") =>
     /\ "likedByTarget" \in ret.before =>
           (ret.match # NoMatch /\ UsersOf(ret.match) = {ret.user, ret.arg.targetId})
     /\ <<ret.arg.targetId, ret.user, "like">> \notin swipedEver => ret.match = NoMatch

\* C6: a like of B by A repeated after the match of {A, B} exists leaves one
\* match row for {A, B} and returns that row
RepeatedLikeKeepsOneMatch ==
  (ret.op = "swipe" /\ ret.user # NoId /\ ret.arg.action = "like"
     /\ {"repeat", "matched"} \subseteq ret.before) =>
     /\ Cardinality(PairMatches(ret.user, ret.arg.targetId)) = 1
     /\ ret.match \in PairMatches(ret.user, ret.arg.targetId)

NoReplayOfSwiped ==
  (ret.op = "getPotentials" /\ ret.user # NoId) =>
     \A i \in 1..Len(ret.list) : ret.list[i].id \notin ret.before

\* the statement of C8 for requesters whose profile is in the directory
NoReplayWhileRegistered ==
  (ret.op = "getPotentials" /\ ret.user \in DOMAIN users) =>
     \A i \in 1..Len(ret.list) : ret.list[i].id \notin ret.before

\* a pool was returned to a registered requester who had swiped before
ReplayCaseSeen ==
  /\ ret.op = "getPotentials" /\ ret.user \in DOMAIN users
  /\ ret.before # {} /\ ret.list # <<>>

\* C9: a pass of B by a logged-in A adds exactly one ledger row, returns null
\* and leaves matches unchanged, whatever B has swiped; and a match row is
\* only ever inserted by a like of B by A when B has at some time liked A: a
\* PASS row from B to A never counts as reciprocity
PassNeverMatches ==
  [][/\ \A c \in Clients, t \in Ids :
          (SwipeInsert(c, t, "pass") /\ currentUser[c] # NoUser) =>
             /\ BagCardinality(swipes') = BagCardinality(swipes) + 1
             /\ CopiesIn(SwipeRow(currentUser[c].id, t, "pass"), swipes')
                  = CopiesIn(SwipeRow(currentUser[c].id, t, "pass"), swipes) + 1
             /\ matches' = matches
             /\ ret'.op = "swipe" /\ ret'.err = FALSE /\ ret'.match = NoMatch
     /\ \A c \in Clients :
          SwipeMatch(c) =>
             /\ local[c].arg.action = "like"
             /\ <<local[c].arg.targetId, currentUser[c].id, "like">> \in swipedEver
    ]_vars

\* C9 witness: A liked B, B passed A, and A's later like of B has returned
\* null with no match in the store
PassThenLikeSeen ==
  /\ ret.op = "swipe" /\ ret.user # NoId /\ ret.arg.action = "like"
  /\ "repeat" \in ret.before
  /\ <<ret.arg.targetId, ret.user, "pass">> \in swipedEver
  /\ <<ret.arg.targetId, ret.user, "like">> \notin swipedEver
  /\ CopiesIn(SwipeRow(ret.arg.targetId, ret.user, "pass"), swipes) = 1
  /\ ret.match = NoMatch
  /\ matches = {}

\* C10: the profiles getPotentials() returns to R are never R itself, never
\* blocked in the store when the users query ran, and never of type ADMIN
PotentialsExcludeSelfBlockedAdmin ==
  ret.op = "getPotentials" =>
     \A i \in 1..Len(ret.list) :
        /\ ret.list[i].id # ret.user
        /\ ret.list[i].isBlocked = FALSE
        /\ ret.list[i].type # ADMIN

\* C10 witness: a non-empty pool was returned while a profile of a type the
\* requester looks for was blocked
PoolWithBlockedProfile ==
  /\ ret.op = "getPotentials" /\ ret.user # NoId /\ ret.list # <<>>
  /\ \E u \in DOMAIN users :
        /\ users[u].isBlocked
        /\ u # ret.user
        /\ users[u].type \in TargetTypes(currentUser[ret.proc].type, ret.arg.pref)

\* the ids in the list a getPotentials call returned
Listed == {ret.list[i].id : i \in 1..Len(ret.list)}

\* the profiles in the directory that user me has never swiped
Unswiped(me) ==
  {u \in DOMAIN users \ {me} : \A a \in {"like", "pass"} : <<me, u, a>> \notin swipedEver}

\* C11: when the requester is a COMPANY, every profile getPotentials()
\* returns is a RESEARCHER, whatever preference was passed
CompanySeesResearchers ==
  (ret.op = "getPotentials" /\ ret.user # NoId /\ currentUser[ret.proc].type = COMPANY) =>
     \A i \in 1..Len(ret.list) : ret.list[i].type = RESEARCHER

\* C11 witness: a COMPANY asked for COMPANY profiles, another unblocked COMPANY
\* is in the directory, and a non-empty pool was returned
CompanyAskedForCompanies ==
  /\ ret.op = "getPotentials" /\ ret.user # NoId
  /\ currentUser[ret.proc].type = COMPANY
  /\ ret.arg.pref = COMPANY
  /\ ret.list # <<>>
  /\ \E u \in Unswiped(ret.user) : users[u].type = COMPANY /\ ~users[u].isBlocked

\* C12: when the requester is a RESEARCHER and a preference is passed, every
\* profile returned has exactly that type; with no preference every unblocked
\* COMPANY and RESEARCHER profile the requester has not swiped and that passes
\* the topic filter is returned
ResearcherPreference ==
  (ret.op = "getPotentials" /\ ret.user # NoId /\ currentUser[ret.proc].type = RESEARCHER) =>
     /\ ret.arg.pref # NoPref => \A i \in 1..Len(ret.list) : ret.list[i].type = ret.arg.pref
     /\ ret.arg.pref = NoPref =>
           \A u \in Unswiped(ret.user) :
              (/\ users[u].type \in {COMPANY, RESEARCHER}
               /\ ~users[u].isBlocked
               /\ ret.arg.filter # NoFilter => ret.arg.filter \in users[u].focusAreas)
                 => u \in Listed

\* C12 witness: a RESEARCHER asked for COMPANY profiles while an unswiped,
\* unblocked RESEARCHER was in the directory, and got a non-empty pool
ResearcherAskedForCompanies ==
  /\ ret.op = "getPotentials" /\ ret.user # NoId
  /\ currentUser[ret.proc].type = RESEARCHER
  /\ ret.arg.pref = COMPANY /\ ret.arg.filter = NoFilter
  /\ ret.list # <<>>
  /\ \E u \in Unswiped(ret.user) : users[u].type = RESEARCHER /\ ~users[u].isBlocked

\* C13: when a topic filter is passed, every profile returned has that topic
\* among its focus areas; when none is passed, every candidate of a target
\* type that the requester has not swiped is returned, whatever its topics
TopicFilterRestricts ==
  (ret.op = "getPotentials" /\ ret.user # NoId) =>
     /\ ret.arg.filter # NoFilter =>
           \A i \in 1..Len(ret.list) : ret.arg.filter \in ret.list[i].focusAreas
     /\ ret.arg.filter = NoFilter =>
           \A u \in Unswiped(ret.user) :
              u \in Candidates(TargetTypes(currentUser[ret.proc].type, ret.arg.pref))
                 => u \in Listed

\* C13 witness: a pool filtered by topic was returned while an unswiped
\* candidate without that topic was in the directory
TopicFilterDroppedOne ==
  /\ ret.op = "getPotentials" /\ ret.user # NoId
  /\ ret.arg.filter # NoFilter
  /\ ret.list # <<>>
  /\ \E u \in Unswiped(ret.user) :
        /\ u \in Candidates(TargetTypes(currentUser[ret.proc].type, ret.arg.pref))
        /\ ret.arg.filter \notin users[u].focusAreas

\* C14: a swipe whose target is the acting user fails and leaves the ledger
\* and the matches table unchanged: no ledger row has actorId = targetId, no
\* match row pairs a user with itself, and every such call returns an error
SelfSwipeRejected ==
  /\ \A r \in BagToSet(swipes) : r.actorId # r.targetId
  /\ \A m \in matches : m.users[1] # m.users[2]
  /\ (ret.op = "swipe" /\ ret.user # NoId /\ ret.arg.targetId = ret.user) => ret.err

\* the contents that are empty or only whitespace
Blank == {"", " "}

\* the rows in the list a getConversation call returned
Returned == {ret.list[i] : i \in 1..Len(ret.list)}

\* C15: sendMessage with blank or whitespace-only content, or with an empty
\* receiverId, fails and creates no record: the store holds no such row and
\* every such call returns an error
BlankMessageRejected ==
  /\ \A m \in MessageRows : m.content \notin Blank /\ m.receiverId # NoId
  /\ (ret.op = "sendMessage" /\ ret.user # NoId
        /\ (ret.arg.content \in Blank \/ ret.arg.targetId = NoId)) => ret.err

\* C16: every sequence getConversation returns is non-decreasing in timestamp
ConversationNonDecreasing ==
  ret.op = "getConversation" =>
     \A i, j \in 1..Len(ret.list) : i < j => ret.list[i].timestamp <= ret.list[j].timestamp

\* C16 witness: a conversation was returned in which the message persisted
\* last, sent by the other side, carries the smaller timestamp and comes first
LaterInsertEarlierStamp ==
  /\ ret.op = "getConversation" /\ Len(ret.list) = 2
  /\ ret.list[1].id > ret.list[2].id
  /\ ret.list[1].timestamp < ret.list[2].timestamp
  /\ ret.list[1].senderId # ret.list[2].senderId

\* C17: getConversation(B) called as A returns exactly the stored messages
\* with {senderId, receiverId} = {A, B}, each once, and the same set as
\* getConversation(A) called as B
ConversationIsThePair ==
  (ret.op = "getConversation" /\ ret.user # NoId) =>
     /\ Returned = {m \in MessageRows : {m.senderId, m.receiverId} = {ret.user, ret.arg.targetId}}
     /\ Cardinality(Returned) = Len(ret.list)
     /\ \A data \in OrderedByTimestamp(ConversationRows(ret.arg.targetId, ret.user)) :
           {data[i] : i \in 1..Len(data)} = Returned

\* C17 witness: a conversation holding a message the partner sent was
\* returned while the store held a message between the caller and a third user
ConversationBesideThirdUser ==
  /\ ret.op = "getConversation" /\ ret.user # NoId
  /\ \E m \in Returned : m.senderId = ret.arg.targetId /\ m.senderId # ret.user
  /\ \E m \in MessageRows \ Returned : ret.user \in {m.senderId, m.receiverId}

\* C18: messages of one conversation with equal timestamps are returned in
\* the order in which they were inserted into the store
EqualStampsKeepInsertionOrder ==
  ret.op = "getConversation" =>
     \A i, j \in 1..Len(ret.list) :
        (i < j /\ ret.list[i].timestamp = ret.list[j].timestamp) => ret.list[i].id < ret.list[j].id

\* C19: if the sendMessage of m1 had returned before the sendMessage of m2
\* was called, m1 precedes m2 in every getConversation result holding both
CausalOrder ==
  ret.op = "getConversation" =>
     \A i, j \in 1..Len(ret.list) : ret.list[i].id \in ret.list[j].after => i < j

\* a message sent after another had been delivered precedes it in a returned
\* conversation because its sender's clock is behind
SkewReordersSeen ==
  /\ ret.op = "getConversation"
  /\ \E i, j \in 1..Len(ret.list) :
        /\ i < j
        /\ ret.list[j].id \in ret.list[i].after
        /\ ret.list[i].timestamp < ret.list[j].timestamp
        /\ ret.list[i].senderId # ret.list[j].senderId

\* C20: a call made after deleteUser(U) has returned never yields U: U is
\* in no getAllUsers or getPotentials result, in no entry of a getMatches
\* result, and in no message of a getConversation result
DeletedUserGone ==
  \A u \in ret.gone :
     /\ ret.op \in {"getAllUsers", "getPotentials"} =>
           \A i \in 1..Len(ret.list) : ret.list[i].id # u
     /\ ret.op = "getMatches" =>
           \A i \in 1..Len(ret.list) :
              ret.list[i].otherUser.id # u /\ u \notin UsersOf(ret.list[i].match)
     /\ ret.op = "getConversation" =>
           \A i \in 1..Len(ret.list) : u \notin {ret.list[i].senderId, ret.list[i].receiverId}

\* C21: when deleteUser(U) returns, the store holds no swipes row with
\* actorId or targetId U, no match row containing U and no messages row with
\* senderId or receiverId U, whatever calls ran between its delete steps
CascadeComplete ==
  ret.op = "deleteUser" =>
     LET u == ret.arg.targetId IN
       /\ \A r \in BagToSet(swipes) : r.actorId # u /\ r.targetId # u
       /\ MatchesOf(u) = {}
       /\ \A m \in MessageRows : m.senderId # u /\ m.receiverId # u

OneRowPerOrderedPair ==
  \A a, b \in Ids :
     CountRows({r \in BagToSet(swipes) : r.actorId = a /\ r.targetId = b}, swipes) <= 1

BlockedLoginFails ==
  [][(/\ ret'.op = "login"
      /\ SingleRow(Named(ret'.arg.targetId)) # NoId
      /\ users[SingleRow(Named(ret'.arg.targetId))].isBlocked)
     => /\ ret'.err
        /\ ret'.error = AccountBlocked
        /\ currentUser' = currentUser]_vars

\* C23 witness: a caller with a session tried a blocked account with a wrong
\* password; the call threw and the session is still there
BlockedLoginWrongPassword ==
  /\ ret.op = "login" /\ ret.err /\ ~ret.arg.pwOk
  /\ currentUser[ret.proc] # NoUser
  /\ currentUser[ret.proc].id # ret.arg.targetId

\* C25: getAllUsers returns the profiles of the directory whose type is not
\* ADMIN, each once, blocked or not, and no profile of type ADMIN.
AllUsersListsNonAdmins ==
  ret.op = "getAllUsers" =>
    /\ ~ret.err
    /\ Listed = {u \in DOMAIN users : users[u].type # ADMIN}
    /\ Len(ret.list) = Cardinality(Listed)
    /\ \A i \in 1..Len(ret.list) : ret.list[i] = UserRow(ret.list[i].id)

\* C25 witness: the directory holds an ADMIN profile and the list returned
\* holds a blocked one
BlockedProfileListed ==
  /\ ret.op = "getAllUsers"
  /\ \E u \in DOMAIN users : users[u].type = ADMIN
  /\ \E i \in 1..Len(ret.list) : ret.list[i].isBlocked

\* C28: while the blocked flag of U is on, no getPotentials of another user
\* lists U and every login as U fails without a session; the flag goes off
\* only by a toggleBlock of U; a toggleBlock of an id no profile has leaves
\* the directory as it was.
BlockHoldsUntilToggledOff ==
  [][/\ \A u \in DOMAIN users :
          users[u].isBlocked =>
            /\ (ret'.op = "getPotentials" /\ ret'.user # u) =>
                  \A i \in 1..Len(ret'.list) : ret'.list[i].id # u
            /\ (ret'.op = "login" /\ ret'.arg.targetId = users[u].username) =>
                  ret'.err /\ currentUser' = currentUser
            /\ (u \in DOMAIN users' /\ ~users'[u].isBlocked) =>
                  ret'.op = "toggleBlock" /\ ret'.arg.targetId = u
     /\ (ret'.op = "toggleBlock" /\ ret'.arg.targetId \notin DOMAIN users) =>
          users' = users]_vars

\* C28 witness: a login as a blocked profile with the right password was
\* refused
LoginRefusedWhileBlocked ==
  /\ ret.op = "login" /\ ret.err /\ ret.arg.pwOk
  /\ \E u \in Named(ret.arg.targetId) : users[u].isBlocked

\* C24: no two profiles of the directory have the same username, however the
\* register calls interleave.
UniqueUsernames ==
  \A a, b \in DOMAIN users : users[a].username = users[b].username => a = b

\* C26: a swipe, sendMessage or register call one of whose requests to the
\* store failed throws; it never returns normally.
StoreFailureVisible ==
  (ret.fault /\ ret.op \in {"swipe", "sendMessage", "register"}) => ret.err

\* C27: a getPotentials or getMatches call whose read of the store failed
\* returns an empty list and does not throw.
ReadFailureGivesEmpty ==
  (ret.fault /\ ret.op \in {"getPotentials", "getMatches"}) =>
    ~ret.err /\ ret.list = <<>>

\* the ids of the profiles in lexicographic order, and the place of an id in it
IdOrder == <<"adm", "ind1", "ind2", "org1", "org2">>
Rank(id) == CHOOSE i \in 1..Len(IdOrder) : IdOrder[i] = id

\* C31: every match row holds its two ids in the canonical (sorted) order,
\* whichever of the two users liked last.
MatchKeyCanonical ==
  \A m \in matches : Rank(m.users[1]) <= Rank(m.users[2])

\* a step of the call that client c runs
ClientStep(c) == pc'[c] # pc[c] \/ local'[c] # local[c] \/ ret'.proc = c

\* every row the three tables held is still there, unchanged, after the step
RowsKept ==
  /\ \A r \in BagToSet(swipes) : CopiesIn(r, swipes') >= CopiesIn(r, swipes)
  /\ matches \subseteq matches'
  /\ Len(messages') >= Len(messages)
  /\ SubSeq(messages', 1, Len(messages)) = messages

\* C32: no step of a swipe, sendMessage, getPotentials, getMatches or
\* getConversation call changes a profile or changes or removes a row of
\* swipes, matches or messages; a row is removed only by a delete of
\* deleteUser.
ClientCallsOnlyAppend ==
  [][/\ (\E c \in Clients : ClientStep(c)) => (users' = users /\ RowsKept)
     /\ ~RowsKept => \E p \in Consoles : /\ pc[p] \in {"del_swipes", "del_matches", "del_messages"}
                                         /\ pc'[p] # pc[p]]_vars

\* C32 witness: a sendMessage returned after adding a row to a table that
\* held one already, beside rows of the ledger
AppendedToExistingRows ==
  /\ ret.op = "sendMessage" /\ ret.user # NoId
  /\ Len(messages) >= 2
  /\ BagCardinality(swipes) >= 2

\* the profiles eligible for the pool of requester me: in the directory, not
\* me, not blocked, not ADMIN, of a target type, never swiped by me, and
\* having the topic when one is asked for
Eligible(me, myType, pref, filter) ==
  {u \in Unswiped(me) : /\ ~users[u].isBlocked
                        /\ users[u].type # ADMIN
                        /\ users[u].type \in TargetTypes(myType, pref)
                        /\ filter # NoFilter => filter \in users[u].focusAreas}

AnonymousCallsDoNothing ==
  [][(/\ ret'.op \in {"getPotentials", "getMatches", "getConversation", "swipe", "sendMessage"}
      /\ ret'.user = NoId)
     => /\ ~ret'.err
        /\ ret'.list = <<>>
        /\ ret'.match = NoMatch
        /\ UNCHANGED <<users, swipes, matches, messages>>]_vars

\* C34 witness: a swipe made after the logout of a user who had swiped and
\* sent a message returned
SwipeAfterLogout ==
  /\ ret.op = "swipe" /\ ret.user = NoId
  /\ BagCardinality(swipes) >= 1
  /\ messages # <<>>

\* the profile of id is in the directory and is not blocked
InGoodStanding(id) == id \in DOMAIN users /\ ~users[id].isBlocked

\* C35: every row added to swipes has an actor, and every row added to
\* messages a sender, whose profile is in the directory and not blocked when
\* the row is written.
StaleSessionCannotWrite ==
  [][/\ \A r \in BagToSet(swipes') :
          CopiesIn(r, swipes') > CopiesIn(r, swipes) => InGoodStanding(r.actorId)
     /\ Len(messages') > Len(messages) =>
          InGoodStanding(messages'[Len(messages')].senderId)]_vars

\* C36: every toggleBlock(U) call that completes for a profile in the
\* directory flips the blocked flag of U, so that the flag after n completed
\* calls depends only on the parity of n.
EachToggleFlips ==
  [][(ret'.op = "toggleBlock" /\ ret'.arg.targetId \in DOMAIN users) =>
        users'[ret'.arg.targetId].isBlocked # users[ret'.arg.targetId].isBlocked]_vars


(* --------------------- ChatInterface, the component -------------------- *)
\* the store once org1 and each of ind1, ind2 have liked each other, the
\* researcher last: four rows of swipes and two matches
InitMatched ==
  /\ users = [u \in Ids |->
       CASE u = "org1" -> [username |-> u, type |-> COMPANY, isBlocked |-> FALSE, focusAreas |-> {"AI"}]
         [] u = "org2" -> [username |-> u, type |-> COMPANY, isBlocked |-> FALSE, focusAreas |-> {}]
         [] u = "ind1" -> [username |-> u, type |-> RESEARCHER, isBlocked |-> FALSE, focusAreas |-> {"AI"}]
         [] u = "ind2" -> [username |-> u, type |-> RESEARCHER, isBlocked |-> FALSE, focusAreas |-> {}]
         [] OTHER -> [username |-> u, type |-> ADMIN, isBlocked |-> FALSE, focusAreas |-> {}]]
  /\ swipes = SetToBag({SwipeRow("org1", "ind1", "like"), SwipeRow("ind1", "org1", "like"),
                        SwipeRow("org1", "ind2", "like"), SwipeRow("ind2", "org1", "like")})
  /\ matches = {MatchRow("ind1", "org1", 1), MatchRow("ind2", "org1", 2)}
  /\ nextMatchId = 3
  /\ messages = <<>>
  /\ currentUser = [c \in Clients |-> NoUser]
  /\ pc = [p \in Procs |-> "idle"]
  /\ local = [p \in Procs |-> NoLocal]
  /\ ret = NoRet
  /\ adminCalls = 0
  /\ swipeCalls = 0
  /\ swipedEver = {<<"org1", "ind1", "like">>, <<"ind1", "org1", "like">>,
                   <<"org1", "ind2", "like">>, <<"ind2", "org1", "like">>}
  /\ clock = [c \in Clients |-> 0]
  /\ nextMsgId = 1
  /\ deleted = {}
  /\ ui = [c \in Clients |-> NoUi]

\* the mount effect, up to its call of getMatches
ChatMount(c) ==
  /\ ~ui[c].mounting
  /\ ui[c].partners = {}
  /\ ui' = [ui EXCEPT ![c].mounting = TRUE]
  /\ UiOnly

\* the mount effect: dataService.getMatches()
ChatMatches(c) ==
  /\ ui[c].mounting
  /\ GetMatchesQuery(c)

\* the click on a row of the list of matches: setSelectedMatchId(otherUser.id);
\* the effect on selectedMatchId then asks for the conversation
SelectMatch(c, partner) ==
  /\ partner \in ui[c].partners
  /\ partner # ui[c].selected
  /\ ui' = [ui EXCEPT ![c].selected = partner, ![c].asked = @ \cup {partner}]
  /\ UiOnly

\* a tick of the 3-second interval of the selected match
Poll(c) ==
  /\ ui[c].selected # NoId
  /\ ui[c].selected \notin ui[c].asked
  /\ ui' = [ui EXCEPT ![c].asked = @ \cup {ui[c].selected}]
  /\ UiOnly

\* a getConversation call the component has made is served
ChatResponse(c, partner) ==
  /\ partner \in ui[c].asked
  /\ GetConversation(c, partner)

\* handleSend, up to the insert of sendMessage: input.trim() is not empty
\* and a match is selected
HandleSend(c, content) ==
  /\ ui[c].selected # NoId
  /\ SendMessageCall(c, ui[c].selected, content)

\* org1 has the chat open in one browser, ind1 writes from the other
NextChatUi ==
  \/ \E c \in Clients : \E u \in EraseLoginAs(c) : Login(c, u, TRUE)
  \/ \E c \in PoolClients : ChatMount(c)
  \/ \E c \in PoolClients : ChatMatches(c)
  \/ \E c \in PoolClients : GetMatchesFetch(c)
  \/ \E c \in PoolClients, r \in Ids : SelectMatch(c, r)
  \/ \E c \in PoolClients : Poll(c)
  \/ \E c \in PoolClients, r \in Ids : ChatResponse(c, r)
  \/ \E c \in PoolClients : HandleSend(c, "hi")
  \/ \E c \in StaleClients : SendMessageCall(c, "org1", "hi")
  \/ \E c \in Clients : SendMessageInsert(c)

SpecChatUi == InitMatched /\ [][NextChatUi]_vars

(* --------------------------- App and Register -------------------------- *)
\* the views shown to a user who has logged in
AuthViews == {SWIPE, CHAT, ADMINVIEW}

\* handleLogin: login is called and not awaited, so user is the promise of
\* the call: it is truthy and has no type, and the handler sets the SWIPE
\* view and clears the error before the call has resolved; the catch never
\* sees the rejection of the promise
HandleLogin(c, username, pwOk) ==
  /\ ui[c].view = LOGIN
  /\ ui[c].login = NoCall
  /\ ui' = [ui EXCEPT ![c].login = [NoCall EXCEPT !.username = username, !.pwOk = pwOk],
                       ![c].appUser = PromiseObject,
                       ![c].view = SWIPE,
                       ![c].loginError = ""]
  /\ UiOnly

\* the login call that handleLogin has made is served
AppLogin(c) ==
  /\ ui[c].login # NoCall
  /\ Login(c, ui[c].login.username, ui[c].login.pwOk)

\* handleLogout: dataService.logout(), setCurrentUser(null), setView(View.LOGIN)
HandleLogout(c) ==
  /\ ui[c].view \in AuthViews
  /\ IF currentUser[c] # NoUser
     THEN Logout(c)
     ELSE /\ ui' = [ui EXCEPT ![c].view = LOGIN, ![c].appUser = NoId]
          /\ UiOnly

\* the button of the LOGIN view that opens the registration form
OpenRegister(c) ==
  /\ ui[c].view = LOGIN
  /\ ui' = [ui EXCEPT ![c].view = REGISTER]
  /\ UiOnly

\* Register.handleSubmit and the onSuccess of App: register is called and not
\* awaited, and onSuccess runs at once: setCurrentUser(getCurrentUser()),
\* setView(View.SWIPE)
HandleSubmit(c, username, type) ==
  /\ ui[c].view = REGISTER
  /\ ui[c].register = NoCall
  /\ ui' = [ui EXCEPT ![c].register = [NoCall EXCEPT !.username = username, !.type = type],
                       ![c].appUser = currentUser[c].id,
                       ![c].view = SWIPE]
  /\ UiOnly

\* the register call that handleSubmit has made runs up to its insert
SubmitRegister(c) ==
  /\ ui[c].register # NoCall
  /\ RegisterCheck(c, ui[c].register.username, ui[c].register.type)

\* the usernames typed into the login form: a company, the administrator, nobody
AppUsernames == {"org1", "adm", "zed"}

\* two browsers at the login form, one moderation console
NextApp ==
  \/ \E c \in Clients, u \in AppUsernames, ok \in BOOLEAN : HandleLogin(c, u, ok)
  \/ \E c \in Clients : AppLogin(c)
  \/ \E c \in Clients : HandleLogout(c)
  \/ \E p \in Consoles : ToggleBlock(p, "org1")
  \/ \E p \in Consoles : ToggleBlockWrite(p)

SpecApp == Init /\ [][NextApp]_vars

\* two browsers at the registration form
NextSignup ==
  \/ \E c \in Clients : OpenRegister(c)
  \/ \E c \in Clients, u \in Usernames, t \in RegisterTypes : HandleSubmit(c, u, t)
  \/ \E c \in Clients : SubmitRegister(c)
  \/ \E c \in Clients : RegisterInsert(c)
  \/ \E c \in Clients : RegisterInsertFails(c)
  \/ \E c \in Clients : HandleLogout(c)

SpecSignup == Init /\ [][NextSignup]_vars

\* C37: the swipe calls that handleSwipe makes from one deck are for
\* distinct targets: clicks during the 200 ms delay or a refetch in between
\* never lead to a second swipe call for the same target.
OneSwipePerCard ==
  \A c \in Clients : \A i, j \in 1..Len(ui[c].calls) :
     i # j => ui[c].calls[i] # ui[c].calls[j]


\* C38: whenever the displayed list of messages is replaced, the list that
\* replaces it is a conversation with the partner selected at that moment: a
\* response that resolves after the selection changed is not applied.
DisplayedIsSelected ==
  [][\A c \in Clients :
       ui'[c].shown # ui[c].shown => ui'[c].shown.partner = ui'[c].selected]_vars


\* C39: when a login call returns, the view is an authenticated one only if
\* the call yielded a profile, and then it is ADMIN exactly for an ADMIN
\* profile; when the call yielded null or threw (unknown username, wrong
\* password, blocked account) the view is LOGIN and an error is shown.
LoginGatesViews ==
  [][\A c \in Clients :
       (ret'.proc = c /\ ret'.op = "login") =>
          IF ~ret'.err /\ ret'.list # <<>>
          THEN ui'[c].view = (IF ret'.list[1].type = ADMIN THEN ADMINVIEW ELSE SWIPE)
          ELSE ui'[c].view = LOGIN /\ ui'[c].loginError # ""]_vars

\* C40: the view goes from REGISTER to SWIPE only at the return of a register
\* call that succeeded, and the current user of the application is then the
\* profile that call created.
SwipeAfterRegistered ==
  [][\A c \in Clients :
       (ui[c].view = REGISTER /\ ui'[c].view = SWIPE) =>
          /\ ret'.proc = c /\ ret'.op = "register" /\ ~ret'.err
          /\ currentUser'[c] # NoUser
          /\ ui'[c].appUser = currentUser'[c].id]_vars

====
